---------------------------- MODULE Spec2Model ----------------------------
(***************************************************************************)
(* Interior Design Studio API (src/main.py, src/schemas.py).               *)
(*                                                                         *)
(* The request handlers of main.py as a state machine over the document    *)
(* store, the process environment and the outbound CRM channel.  Each      *)
(* handler is one action; the last request and its response are kept in    *)
(* `last`.                                                                 *)
(*                                                                         *)
(* Encoding of Python values:                                              *)
(*   - Optional[T]: None is <<>>, a present value v is <<v>>, for query    *)
(*     parameters, environment variables and Optional schema fields;       *)
(*   - a dict is a function from its keys (strings) to its values;         *)
(*   - a list is a sequence;                                               *)
(*   - an ObjectId is [oid |-> n]; str() renders it as 24 hex digits.      *)
(* The storage module (database.py: db, create_document, get_documents)    *)
(* is modelled from its interface.                                         *)
(***************************************************************************)
EXTENDS Integers, Sequences, FiniteSets, TLC

VARIABLES
    env,      \* os.environ: SEED_TOKEN, HUBSPOT_API_KEY, DATABASE_URL, DATABASE_NAME
    db,       \* database.db: "None" (handle not initialised) or "handle"
    store,    \* collection name -> sequence of stored documents
    nextId,   \* storage's identifier generator
    outbox,   \* payloads handed to requests.post, in order
    seedOk,   \* number of seed_demo calls that returned "seeded"
    seedFailed, \* number of seed_demo calls that ended in a storage error
    ncalls,   \* number of requests handled
    last      \* the last request and its response

vars == <<env, db, store, nextId, outbox, seedOk, seedFailed, ncalls, last>>

---------------------------------------------------------------------------
(* Bounds of the model *)

MaxCalls == 2

---------------------------------------------------------------------------
(* Python values *)

None == <<>>

Some(v) == <<v>>

\* Python truthiness of an Optional[str]: None and "" are falsy.
Truthy(o) == o # None /\ o[1] # ""

\* x or "" for an Optional[str] x
OrEmpty(o) == IF Truthy(o) THEN o[1] ELSE ""

Min(a, b) == IF a < b THEN a ELSE b

\* lst[:n]
Slice(lst, n) == SubSeq(lst, 1, Min(n, Len(lst)))

\* os.getenv(name) and os.getenv(name, default)
getenv(e, name) == e[name]

getenv_default(e, name, default) == IF e[name] = None THEN default ELSE e[name][1]

---------------------------------------------------------------------------
(* Storage identifiers *)

OidHexLen == 24

HexDigits == <<"0", "1", "2", "3", "4", "5", "6", "7",
               "8", "9", "a", "b", "c", "d", "e", "f">>

RECURSIVE Hex(_, _)
Hex(n, w) == IF w = 0 THEN "" ELSE Hex(n \div 16, w - 1) \o HexDigits[(n % 16) + 1]

ObjectId(n) == [oid |-> n]

\* str(ObjectId)
str(o) == Hex(o.oid, OidHexLen)

---------------------------------------------------------------------------
(* Storage *)

Collections == {"product", "testimonial", "project", "blogpost", "lead"}

EmptyStore == [c \in Collections |-> <<>>]

\* database.create_document(collection_name, data): stores the entity's
\* fields under a fresh identifier and returns the identifier as a string.
create_document(st, nid, coll, data) ==
    [store  |-> [st EXCEPT ![coll] = Append(@, ("_id" :> ObjectId(nid)) @@ data)],
     nextId |-> nid + 1,
     id     |-> str(ObjectId(nid))]

StorageError == "storage error"

\* Keys whose stored value is an Optional (None or a wrapped value), and
\* keys whose condition is an operator document rather than a value.
OptionalKeys == {"room_type", "style", "room"}

OperatorKeys == {"keywords"}

\* One condition of a filter against a document: {"$in": [..]} on a list
\* field holds when an element of the field is in the list; a plain value is
\* an exact match.
FieldMatches(doc, k, cond) ==
    /\ k \in DOMAIN doc
    /\ IF k \in OperatorKeys
       THEN \E i \in DOMAIN doc[k], j \in DOMAIN cond["$in"] : doc[k][i] = cond["$in"][j]
       ELSE IF k \in OptionalKeys THEN doc[k] = Some(cond) ELSE doc[k] = cond

\* A filter is the conjunction of its conditions; the empty filter matches all.
Matches(doc, filt) == \A k \in DOMAIN filt : FieldMatches(doc, k, filt[k])

\* database.get_documents(collection_name, filter): the documents of the
\* collection that match, in storage order.
get_documents(st, coll, filt) ==
    LET keep(doc) == Matches(doc, filt) IN SelectSeq(st[coll], keep)

---------------------------------------------------------------------------
(* _serialize_docs *)

\* Mutant: the identifier is copied and the storage key is left in place.
serialize_doc_keeps_key(d) ==
    IF "_id" \in DOMAIN d THEN ("id" :> str(d["_id"])) @@ d ELSE d

\* d = dict(d); if "_id" in d: d["id"] = str(d.pop("_id"))
serialize_doc(d) ==
    IF "_id" \in DOMAIN d
    THEN ("id" :> str(d["_id"])) @@ [k \in DOMAIN d \ {"_id"} |-> d[k]]
    ELSE d

_serialize_docs(docs) == [i \in 1..Len(docs) |-> serialize_doc(docs[i])]

---------------------------------------------------------------------------
(* list_products, list_blogposts *)

EmptyDict == <<>>

\* Mutant: in_stock is tested for truth, as the string parameters are.
products_filter_truthy_stock(category, room_type, in_stock) ==
    (IF Truthy(category) THEN "category" :> category[1] ELSE EmptyDict)
    @@ (IF Truthy(room_type) THEN "room_type" :> room_type[1] ELSE EmptyDict)
    @@ (IF in_stock # None /\ in_stock[1] THEN "in_stock" :> in_stock[1] ELSE EmptyDict)

\* filt = {}; if category: ...; if room_type: ...; if in_stock is not None: ...
products_filter(category, room_type, in_stock) ==
    (IF Truthy(category) THEN "category" :> category[1] ELSE EmptyDict)
    @@ (IF Truthy(room_type) THEN "room_type" :> room_type[1] ELSE EmptyDict)
    @@ (IF in_stock # None THEN "in_stock" :> in_stock[1] ELSE EmptyDict)

\* published: bool = True
published_default(published) == IF published = None THEN TRUE ELSE published[1]

\* Mutant: the published parameter is ignored.
blogposts_filter_always_published(published, keyword) ==
    ("published" :> TRUE)
    @@ (IF Truthy(keyword) THEN "keywords" :> ("$in" :> <<keyword[1]>>) ELSE EmptyDict)

\* filt = {"published": published}; if keyword: filt["keywords"] = {"$in": [keyword]}
blogposts_filter(published, keyword) ==
    ("published" :> published_default(published))
    @@ (IF Truthy(keyword) THEN "keywords" :> ("$in" :> <<keyword[1]>>) ELSE EmptyDict)

\* try: docs = get_documents(..); return _serialize_docs(docs)
\* except Exception as e: raise HTTPException(status_code=500, detail=str(e))
list_result(st, coll, filt, readFails) ==
    IF readFails
    THEN [status |-> 500, docs |-> <<>>, body |-> [detail |-> StorageError]]
    ELSE LET docs == get_documents(st, coll, filt)
         IN  [status |-> 200, docs |-> docs, body |-> _serialize_docs(docs)]

ReadFailures == IF db = "None" THEN {TRUE} ELSE BOOLEAN

StrParams(v) == {None, Some(""), Some(v)}

BoolParams == {None, Some(TRUE), Some(FALSE)}

list_products ==
    /\ ncalls = 0
    /\ \E category \in StrParams("lighting"), room_type \in StrParams("kitchen"),
          in_stock \in BoolParams, readFails \in ReadFailures :
         LET filt == products_filter(category, room_type, in_stock)
             r == list_result(store, "product", filt, readFails)
         IN  last' = [op |-> "list_products", category |-> category,
                      room_type |-> room_type, in_stock |-> in_stock,
                      filt |-> filt, docs |-> r.docs,
                      status |-> r.status, body |-> r.body]
    /\ ncalls' = ncalls + 1
    /\ UNCHANGED <<env, db, store, nextId, outbox, seedOk, seedFailed>>

list_blogposts ==
    /\ ncalls = 0
    /\ \E published \in BoolParams, keyword \in StrParams("interior design"),
          readFails \in ReadFailures :
         LET filt == blogposts_filter(published, keyword)
             r == list_result(store, "blogpost", filt, readFails)
         IN  last' = [op |-> "list_blogposts", published |-> published,
                      keyword |-> keyword, filt |-> filt, docs |-> r.docs,
                      status |-> r.status, body |-> r.body]
    /\ ncalls' = ncalls + 1
    /\ UNCHANGED <<env, db, store, nextId, outbox, seedOk, seedFailed>>

---------------------------------------------------------------------------
(* test_database *)

CollectionsLimit == 10

ErrorTextLimit == 50

\* A value of the response's "database" field: a fixed text (written here
\* without its leading status symbol), followed by the exception's text (a
\* sequence of characters) where the code appends it.
Text(t) == [text |-> t, detail |-> <<>>]

\* f"...{str(e)[:50]}"
ErrorText(t, msg) == [text |-> t, detail |-> Slice(msg, ErrorTextLimit)]

SetOrNot(v) == IF Truthy(v) THEN "Set" ELSE "Not Set"

\* The try block of test_database (lines 40-55) on the initial response r0.
\* nameOutcome: db has a name ("value"), has none ("no_attribute"), or reading
\* it raises ("raises"); listOutcome: list_collection_names returns `names`
\* ("ok") or raises ("raises"); msg is the text of what is raised.
diagnose(r0, d, nameOutcome, listOutcome, names, msg) ==
    IF d = "None"
    THEN [status |-> 200,
          body |-> [r0 EXCEPT !.database = Text("Available but not initialized")]]
    ELSE LET r1 == [r0 EXCEPT !.database = Text("Available"),
                              !.database_url = "Configured"]
         IN  IF nameOutcome = "raises"
             THEN [status |-> 200,
                   body |-> [r1 EXCEPT !.database = ErrorText("Error: ", msg)]]
             ELSE LET r2 == [r1 EXCEPT !.database_name =
                                           IF nameOutcome = "value" THEN "studio"
                                           ELSE "Connected",
                                       !.connection_status = "Connected"]
                  IN  IF listOutcome = "ok"
                      THEN [status |-> 200,
                            body |-> [r2 EXCEPT
                                        !.collections = Slice(names, CollectionsLimit),
                                        !.database = Text("Connected & Working")]]
                      ELSE [status |-> 200,
                            body |-> [r2 EXCEPT !.database =
                                        ErrorText("Connected but Error: ", msg)]]

\* Mutant: the outer try is missing, so a failing name lookup gets out.
diagnose_unguarded(r0, d, nameOutcome, listOutcome, names, msg) ==
    IF d # "None" /\ nameOutcome = "raises"
    THEN [status |-> 500, body |-> r0]
    ELSE diagnose(r0, d, nameOutcome, listOutcome, names, msg)

\* Mutant: every listed collection name is reported.
diagnose_unsliced(r0, d, nameOutcome, listOutcome, names, msg) ==
    LET r == diagnose(r0, d, nameOutcome, listOutcome, names, msg)
    IN  IF d # "None" /\ nameOutcome # "raises" /\ listOutcome = "ok"
        THEN [r EXCEPT !.body.collections = names]
        ELSE r

diagnose_try(r0, d, nameOutcome, listOutcome, names, msg) ==
    diagnose(r0, d, nameOutcome, listOutcome, names, msg)

test_database_result(d, e, nameOutcome, listOutcome, names, msg) ==
    LET r0 == [backend |-> "Running",
               database |-> Text("Not Available"),
               database_url |-> None,
               database_name |-> None,
               connection_status |-> "Not Connected",
               collections |-> <<>>]
        r == diagnose_try(r0, d, nameOutcome, listOutcome, names, msg)
    IN  IF r.status # 200 THEN r
        ELSE [status |-> 200,
              body |-> [r.body EXCEPT
                          !.database_url = SetOrNot(getenv(e, "DATABASE_URL")),
                          !.database_name = SetOrNot(getenv(e, "DATABASE_NAME"))]]

MaxCollections == 12

\* What db.list_collection_names() can return: n names.
CollectionNames(n) == [i \in 1..n |-> "collection_" \o ToString(i)]

Chars(n, c) == [i \in 1..n |-> c]

\* Texts of raised exceptions: a short one and one longer than ErrorTextLimit.
ErrorMessages == {<<"d", "o", "w", "n">>, Chars(ErrorTextLimit + 3, "x")}

test_database ==
    /\ ncalls = 0
    /\ \E nameOutcome \in {"value", "no_attribute", "raises"},
          listOutcome \in {"ok", "raises"},
          n \in 0..MaxCollections, msg \in ErrorMessages :
         LET r == test_database_result(db, env, nameOutcome, listOutcome,
                                       CollectionNames(n), msg)
         IN  last' = [op |-> "test_database", nameOutcome |-> nameOutcome,
                      listOutcome |-> listOutcome, names |-> CollectionNames(n),
                      msg |-> msg, status |-> r.status, body |-> r.body]
    /\ ncalls' = ncalls + 1
    /\ UNCHANGED <<env, db, store, nextId, outbox, seedOk, seedFailed>>

---------------------------------------------------------------------------
(* seed_demo *)

demo_products == <<
    [title |-> "Modern Lounge Chair",
     description |-> Some("Ergonomic lounge chair in walnut finish."),
     price |-> 799, category |-> "furniture", room_type |-> Some("living room"),
     image_url |-> None, in_stock |-> TRUE, tags |-> <<"modern", "wood">>],
    [title |-> "Marble Pendant Light",
     description |-> Some("Minimal pendant for kitchen islands."),
     price |-> 199, category |-> "lighting", room_type |-> Some("kitchen"),
     image_url |-> None, in_stock |-> TRUE, tags |-> <<"minimal", "lighting">>] >>

demo_testimonials == <<
    [client_name |-> "Ava Patel", project_type |-> Some("Full Home"), rating |-> 5,
     quote |-> "They transformed our space beyond expectations!",
     photo_url |-> None, case_study_url |-> None],
    [client_name |-> "Liam Chen", project_type |-> Some("Kitchen Remodel"), rating |-> 5,
     quote |-> "Professional, timely, and stunning results.",
     photo_url |-> None, case_study_url |-> None] >>

demo_projects == <<
    [title |-> "Skyline Penthouse", style |-> Some("Modern"), room |-> Some("Living Room"),
     budget_range |-> Some("$$$"), duration_weeks |-> Some(12),
     description |-> Some("A sleek urban living space with panoramic views."),
     before_image_url |-> None, after_image_url |-> None, gallery |-> <<>>],
    [title |-> "Cozy Minimal Bedroom", style |-> Some("Minimalist"), room |-> Some("Bedroom"),
     budget_range |-> Some("$$"), duration_weeks |-> Some(6),
     description |-> Some("Calming tones with functional storage solutions."),
     before_image_url |-> None, after_image_url |-> None, gallery |-> <<>>] >>

demo_posts == <<
    [title |-> "Top 7 Custom Home Interiors Trends", slug |-> "custom-home-interiors-trends",
     excerpt |-> Some("Explore the latest in custom home interiors."),
     content |-> "Long-form content about custom home interiors...",
     cover_image_url |-> None,
     keywords |-> <<"custom home interiors", "interior design">>,
     published |-> TRUE] >>

\* Mutant: the blog post list holds the post twice.
demo_posts_doubled == demo_posts \o demo_posts

Tagged(coll, docs) == [i \in 1..Len(docs) |-> [coll |-> coll, data |-> docs[i]]]

\* for b in demo_posts
seed_posts == demo_posts

\* The create_document calls of seed_demo, in program order.
SeedSequence ==
    Tagged("product", demo_products) \o Tagged("testimonial", demo_testimonials)
    \o Tagged("project", demo_projects) \o Tagged("blogpost", seed_posts)

\* Mutant: a missing token is taken to be the default token.
seed_token_ok_default_none(token, e) ==
    \/ token = Some(getenv_default(e, "SEED_TOKEN", "dev"))
    \/ token = None /\ e["SEED_TOKEN"] = None

\* token != os.getenv("SEED_TOKEN", "dev") is false
seed_token_ok(token, e) == token = Some(getenv_default(e, "SEED_TOKEN", "dev"))

\* The inserts of seed_demo from position i on; the insert at position failAt
\* raises, which ends the try block (failAt beyond the sequence: none raises).
RECURSIVE seed_inserts(_, _, _, _)
seed_inserts(st, nid, i, failAt) ==
    IF i > Len(SeedSequence) THEN [store |-> st, nextId |-> nid, failed |-> FALSE]
    ELSE IF i = failAt THEN [store |-> st, nextId |-> nid, failed |-> TRUE]
    ELSE LET r == create_document(st, nid, SeedSequence[i].coll, SeedSequence[i].data)
         IN  seed_inserts(r.store, r.nextId, i + 1, failAt)

\* Mutant: a failed seed restores the store it started from.
seed_demo_result_rollback(st, nid, token, e, failAt) ==
    IF ~seed_token_ok(token, e)
    THEN [store |-> st, nextId |-> nid, status |-> 403, body |-> [detail |-> "Forbidden"]]
    ELSE LET r == seed_inserts(st, nid, 1, failAt)
         IN  IF r.failed
             THEN [store |-> st, nextId |-> r.nextId, status |-> 500,
                   body |-> [detail |-> StorageError]]
             ELSE [store |-> r.store, nextId |-> r.nextId, status |-> 200,
                   body |-> [status |-> "seeded"]]

seed_demo_result(st, nid, token, e, failAt) ==
    IF ~seed_token_ok(token, e)
    THEN [store |-> st, nextId |-> nid, status |-> 403, body |-> [detail |-> "Forbidden"]]
    ELSE LET r == seed_inserts(st, nid, 1, failAt)
         IN  IF r.failed
             THEN [store |-> r.store, nextId |-> r.nextId, status |-> 500,
                   body |-> [detail |-> StorageError]]
             ELSE [store |-> r.store, nextId |-> r.nextId, status |-> 200,
                   body |-> [status |-> "seeded"]]

Tokens == {None, Some("dev"), Some("s3cret"), Some("")}

\* Positions at which a storage insert of the seed may raise; with no storage
\* handle the first insert raises.
SeedFailPoints == IF db = "None" THEN {1} ELSE 1..(Len(SeedSequence) + 1)

seed_demo ==
    /\ ncalls < MaxCalls
    /\ \E token \in Tokens, failAt \in SeedFailPoints :
         LET r == seed_demo_result(store, nextId, token, env, failAt)
         IN  /\ store' = r.store
             /\ nextId' = r.nextId
             /\ seedOk' = IF r.status = 200 THEN seedOk + 1 ELSE seedOk
             /\ seedFailed' = IF r.status = 500 THEN seedFailed + 1 ELSE seedFailed
             /\ last' = [op |-> "seed_demo", token |-> token, failAt |-> failAt,
                         status |-> r.status, body |-> r.body]
    /\ ncalls' = ncalls + 1
    /\ UNCHANGED <<env, db, outbox>>

---------------------------------------------------------------------------
(* create_lead *)

\* Valid Lead entities, as the schema yields them (defaults filled in).
Leads == {
    [name |-> "Ava", email |-> "ava@example.com", phone |-> None,
     project_details |-> None, preferred_date |-> None,
     source |-> Some("website"), consent |-> TRUE],
    [name |-> "Liam", email |-> "liam@example.com", phone |-> Some("555-0100"),
     project_details |-> Some("Kitchen remodel"), preferred_date |-> None,
     source |-> Some("referral"), consent |-> FALSE] }

\* What can happen inside the notification's try block once it is entered:
\* the import or the payload construction raises before the request is sent,
\* or requests.post is called and returns a 2xx response, returns a non-2xx
\* response, raises a connection error or raises a timeout.
CrmOutcomes == {"raises_before_send", "sent_2xx", "sent_non_2xx",
                "network_error", "timeout"}

CrmSends(outcome) == outcome # "raises_before_send"

CrmRaises(outcome) == outcome \in {"raises_before_send", "network_error", "timeout"}

\* Mutant: the key is tested against None only.
crm_enabled_not_none(hubspot_key) == hubspot_key # None

\* if hubspot_key:
crm_enabled(hubspot_key) == Truthy(hubspot_key)

crm_request(hubspot_key, lead) ==
    [url     |-> "https://api.hubapi.com/crm/v3/objects/contacts",
     headers |-> [Authorization |-> "Bearer " \o hubspot_key[1],
                  ContentType |-> "application/json"],
     json    |-> [properties |->
                    [email |-> lead.email,
                     firstname |-> lead.name,
                     phone |-> OrEmpty(lead.phone),
                     lifecyclestage |-> "lead",
                     notes |-> OrEmpty(lead.project_details)]],
     timeout |-> 5]

\* Mutant: the inner except clause is missing, so what requests raises gets out.
crm_notify_unguarded(out, hubspot_key, lead, outcome) ==
    [outbox |-> IF CrmSends(outcome) THEN Append(out, crm_request(hubspot_key, lead))
                ELSE out,
     propagated |-> CrmRaises(outcome)]

\* The inner try/except of create_lead: the request is handed to requests.post
\* unless something raised before; `except Exception: pass` lets nothing out.
crm_notify(out, hubspot_key, lead, outcome) ==
    [outbox |-> IF CrmSends(outcome) THEN Append(out, crm_request(hubspot_key, lead))
                ELSE out,
     propagated |-> FALSE]

\* Mutant: the lead is stored in the collection of another entity.
lead_insert_wrong_collection(st, nid, lead) == create_document(st, nid, "product", lead)

\* lead_id = create_document("lead", lead)
lead_insert(st, nid, lead) == create_document(st, nid, "lead", lead)

create_lead_result(st, nid, out, e, lead, insertFails, outcome) ==
    IF insertFails
    THEN [store |-> st, nextId |-> nid, outbox |-> out, status |-> 500,
          body |-> [detail |-> StorageError]]
    ELSE LET r == lead_insert(st, nid, lead)
             hubspot_key == getenv(e, "HUBSPOT_API_KEY")
             n == IF crm_enabled(hubspot_key)
                  THEN crm_notify(out, hubspot_key, lead, outcome)
                  ELSE [outbox |-> out, propagated |-> FALSE]
         IN  IF n.propagated
             THEN [store |-> r.store, nextId |-> r.nextId, outbox |-> n.outbox,
                   status |-> 500, body |-> [detail |-> outcome]]
             ELSE [store |-> r.store, nextId |-> r.nextId, outbox |-> n.outbox,
                   status |-> 200, body |-> [id |-> r.id, status |-> "received"]]

\* The notification outcomes an execution can meet: none when the notification
\* block is not entered.
LeadCrmOutcomes(insertFails) ==
    IF ~insertFails /\ crm_enabled(getenv(env, "HUBSPOT_API_KEY"))
    THEN CrmOutcomes ELSE {"not_attempted"}

LeadInsertFailures == IF db = "None" THEN {TRUE} ELSE BOOLEAN

create_lead ==
    /\ ncalls < MaxCalls
    /\ \E lead \in Leads, insertFails \in LeadInsertFailures :
         \E outcome \in LeadCrmOutcomes(insertFails) :
           LET r == create_lead_result(store, nextId, outbox, env, lead,
                                       insertFails, outcome)
           IN  /\ store' = r.store
               /\ nextId' = r.nextId
               /\ outbox' = r.outbox
               /\ last' = [op |-> "create_lead", lead |-> lead,
                           insertFails |-> insertFails, crm |-> outcome,
                           status |-> r.status, body |-> r.body]
    /\ ncalls' = ncalls + 1
    /\ UNCHANGED <<env, db, seedOk, seedFailed>>

---------------------------------------------------------------------------

EnvValues == {None, Some(""), Some("hs-key")}

NoRequest == [op |-> "none", status |-> 0, body |-> <<>>]

Init ==
    /\ env \in [SEED_TOKEN : {None, Some(""), Some("s3cret")},
                HUBSPOT_API_KEY : EnvValues,
                DATABASE_URL : {None}, DATABASE_NAME : {None}]
    /\ db \in {"None", "handle"}
    /\ store = EmptyStore
    /\ nextId = 1
    /\ outbox = <<>>
    /\ seedOk = 0
    /\ seedFailed = 0
    /\ ncalls = 0
    /\ last = NoRequest

Next == seed_demo \/ create_lead

Spec == Init /\ [][Next]_vars

---------------------------------------------------------------------------
(* The read handlers over a populated store (specification ReadSpec).  A    *)
(* read leaves the store as it is, so each behaviour handles one request.   *)

MaxDocs == 2

ProductPool == {
    [title |-> "Marble Pendant Light", description |-> None, price |-> 199,
     category |-> "lighting", room_type |-> Some("kitchen"), image_url |-> None,
     in_stock |-> TRUE, tags |-> <<"minimal">>],
    [title |-> "Brass Floor Lamp", description |-> None, price |-> 249,
     category |-> "lighting", room_type |-> None, image_url |-> None,
     in_stock |-> FALSE, tags |-> <<>>],
    [title |-> "Oak Bar Stool", description |-> None, price |-> 120,
     category |-> "furniture", room_type |-> Some("kitchen"), image_url |-> None,
     in_stock |-> TRUE, tags |-> <<>>] }

BlogPool == {
    [title |-> "Trends", slug |-> "trends", excerpt |-> None, content |-> "...",
     cover_image_url |-> None,
     keywords |-> <<"custom home interiors", "interior design">>, published |-> TRUE],
    [title |-> "Draft", slug |-> "draft", excerpt |-> None, content |-> "...",
     cover_image_url |-> None, keywords |-> <<"interior design">>, published |-> FALSE],
    [title |-> "Lighting 101", slug |-> "lighting-101", excerpt |-> None, content |-> "...",
     cover_image_url |-> None, keywords |-> <<>>, published |-> TRUE] }

SeqsUpTo(S, n) == UNION {[1..k -> S] : k \in 0..n}

\* The documents storage holds after inserting `datas` in order, from id `first` on.
Stored(datas, first) ==
    [i \in 1..Len(datas) |-> ("_id" :> ObjectId(first + i - 1)) @@ datas[i]]

ReadInit ==
    /\ env = [SEED_TOKEN |-> None, HUBSPOT_API_KEY |-> None,
              DATABASE_URL |-> None, DATABASE_NAME |-> None]
    /\ db = "handle"
    /\ \E ps \in SeqsUpTo(ProductPool, MaxDocs), bs \in SeqsUpTo(BlogPool, MaxDocs) :
         /\ store = [EmptyStore EXCEPT !["product"] = Stored(ps, 1),
                                       !["blogpost"] = Stored(bs, Len(ps) + 1)]
         /\ nextId = Len(ps) + Len(bs) + 1
    /\ outbox = <<>>
    /\ seedOk = 0
    /\ seedFailed = 0
    /\ ncalls = 0
    /\ last = NoRequest

ReadNext == list_products \/ list_blogposts

ReadSpec == ReadInit /\ [][ReadNext]_vars

---------------------------------------------------------------------------
(* _serialize_docs over lists of stored documents (specification SerSpec) *)

MaxSerLen == 2

SerData == {
    [title |-> "Skyline Penthouse", gallery |-> <<>>],
    [title |-> "Imported", id |-> "legacy-7", gallery |-> <<"a.webp">>],
    [title |-> "Imported", id |-> "legacy-8", rating |-> 5] }

SerIds == {1, 16, 256}

SerPool == {("_id" :> ObjectId(n)) @@ d : n \in SerIds, d \in SerData}

SerInit ==
    /\ env = [SEED_TOKEN |-> None, HUBSPOT_API_KEY |-> None,
              DATABASE_URL |-> None, DATABASE_NAME |-> None]
    /\ db = "handle"
    /\ \E docs \in SeqsUpTo(SerPool, MaxSerLen) :
         store = [EmptyStore EXCEPT !["project"] = docs]
    /\ nextId = 257
    /\ outbox = <<>>
    /\ seedOk = 0
    /\ seedFailed = 0
    /\ ncalls = 0
    /\ last = NoRequest

serialize ==
    /\ ncalls = 0
    /\ last' = [op |-> "_serialize_docs", docs |-> store["project"],
                status |-> 200, body |-> _serialize_docs(store["project"])]
    /\ ncalls' = ncalls + 1
    /\ UNCHANGED <<env, db, store, nextId, outbox, seedOk, seedFailed>>

SerNext == serialize

SerSpec == SerInit /\ [][SerNext]_vars

---------------------------------------------------------------------------
(* The diagnostics handler in every storage state (specification DiagSpec) *)

DiagInit ==
    /\ env \in [SEED_TOKEN : {None}, HUBSPOT_API_KEY : {None},
                DATABASE_URL : {None, Some(""), Some("mongodb://localhost:27017")},
                DATABASE_NAME : {None, Some("studio")}]
    /\ db \in {"None", "handle"}
    /\ store = EmptyStore
    /\ nextId = 1
    /\ outbox = <<>>
    /\ seedOk = 0
    /\ seedFailed = 0
    /\ ncalls = 0
    /\ last = NoRequest

DiagNext == test_database

DiagSpec == DiagInit /\ [][DiagNext]_vars

---------------------------------------------------------------------------
(* Properties of the write handlers (specification Spec) *)

\* A document without its storage identifier.
Data(doc) == [k \in DOMAIN doc \ {"_id"} |-> doc[k]]

\* The documents of collection c that the step added, given that it only appended.
Added(c) == SubSeq(store'[c], Len(store[c]) + 1, Len(store'[c]))

\* The step kept every document collection c held, in place.
Kept(c) == /\ Len(store'[c]) >= Len(store[c])
           /\ SubSeq(store'[c], 1, Len(store[c])) = store[c]

\* The seed secret in force: SEED_TOKEN, or "dev" when it is not configured.
SeedSecret == IF env["SEED_TOKEN"] = None THEN "dev" ELSE env["SEED_TOKEN"][1]

SeedStep == last'.op = "seed_demo"

LeadStep == last'.op = "create_lead"

\* The data of the first k inserts of the seed that go to collection c.
RECURSIVE SeedPrefixData(_, _)
SeedPrefixData(c, k) ==
    IF k = 0 THEN <<>>
    ELSE IF SeedSequence[k].coll = c
         THEN Append(SeedPrefixData(c, k - 1), SeedSequence[k].data)
         ELSE SeedPrefixData(c, k - 1)

AddedData(c) == [i \in 1..Len(Added(c)) |-> Data(Added(c)[i])]

\* C1: a seed_demo call with the correct token in which no insert fails adds
\* exactly 2 products, 2 testimonials, 2 projects and 1 blog post, leaves the
\* leads alone and answers {status: "seeded"}; so while no seed call has
\* failed, n such calls on the initially empty store leave 2n, 2n, 2n and n
\* documents.
C1_SeedAddsFixedBatch ==
    /\ [][(SeedStep /\ last'.token = Some(SeedSecret) /\ last'.failAt > 7)
           => /\ last'.status = 200
              /\ last'.body = [status |-> "seeded"]
              /\ \A c \in Collections : Kept(c)
              /\ Len(Added("product")) = 2
              /\ Len(Added("testimonial")) = 2
              /\ Len(Added("project")) = 2
              /\ Len(Added("blogpost")) = 1
              /\ Len(Added("lead")) = 0]_vars
    /\ [](seedFailed = 0
            => /\ Len(store["product"]) = 2 * seedOk
               /\ Len(store["testimonial"]) = 2 * seedOk
               /\ Len(store["project"]) = 2 * seedOk
               /\ Len(store["blogpost"]) = seedOk)

\* Two successful seed calls on the empty store: the counts have doubled.
C1_Witness ==
    /\ seedOk = 2
    /\ seedFailed = 0
    /\ last.op = "seed_demo"
    /\ last.status = 200
    /\ Len(store["product"]) = 4
    /\ Len(store["blogpost"]) = 2

\* C2: a seed_demo call whose token is not the seed secret in force (a
\* missing token included) answers 403 and makes no storage call: the store
\* and the identifier generator are as before.
C2_WrongTokenRejectedUntouched ==
    [][(SeedStep /\ last'.token # Some(SeedSecret))
        => /\ last'.status = 403
           /\ store' = store
           /\ nextId' = nextId]_vars

\* A call without a token is rejected while the store holds documents and no
\* secret is configured.
C2_Witness ==
    /\ last.op = "seed_demo"
    /\ last.token = None
    /\ env["SEED_TOKEN"] = None
    /\ last.status = 403
    /\ Len(store["product"]) = 2

\* C3: in create_lead, once the lead is inserted, the response is
\* {id: <inserted id>, status: "received"} whatever the notification did.
C3_NotificationNeverChangesResponse ==
    [][(LeadStep /\ ~last'.insertFails)
        => /\ last'.status = 200
           /\ Len(store'["lead"]) > 0
           /\ last'.body = [id |-> str(store'["lead"][Len(store'["lead"])]["_id"]),
                            status |-> "received"]]_vars

\* A lead was accepted although the notification timed out.
C3_Witness ==
    /\ last.op = "create_lead"
    /\ last.crm = "timeout"
    /\ Len(outbox) > 0
    /\ last.status = 200

\* C4: a create_lead call that succeeds adds exactly one document, the
\* submitted lead, to 'lead' and nothing to any other collection, and the id
\* of the response is the rendering of the identifier storage gave it.
C4_LeadPersistedOnce ==
    [][(LeadStep /\ last'.status = 200)
        => /\ \A c \in Collections : Kept(c)
           /\ \A c \in Collections \ {"lead"} : store'[c] = store[c]
           /\ Len(Added("lead")) = 1
           /\ Data(Added("lead")[1]) = last'.lead
           /\ Added("lead")[1]["_id"] = ObjectId(nextId)
           /\ last'.body.id = str(ObjectId(nextId))
           /\ \A c \in Collections : \A i \in 1..Len(store[c]) :
                store[c][i]["_id"] # ObjectId(nextId)]_vars

\* A lead was accepted after the seed had filled the other collections.
C4_Witness ==
    /\ last.op = "create_lead"
    /\ last.status = 200
    /\ Len(store["lead"]) = 1
    /\ Len(store["product"]) = 2
    /\ last.body.id = str(store["lead"][1]["_id"])

\* The CRM credential is configured: HUBSPOT_API_KEY is set and not empty.
CrmConfigured == env["HUBSPOT_API_KEY"] # None /\ env["HUBSPOT_API_KEY"] # Some("")

\* C5: without a CRM credential a create_lead call whose insert succeeds
\* hands nothing to requests.post and answers {id, status: "received"}; a
\* request is handed to requests.post only when the credential is configured.
C5_NoCredentialNoOutboundCall ==
    [][/\ (LeadStep /\ ~CrmConfigured /\ ~last'.insertFails)
            => /\ outbox' = outbox
               /\ last'.status = 200
               /\ last'.body.status = "received"
               /\ last'.body.id = str(ObjectId(nextId))
       /\ (outbox' # outbox) => CrmConfigured]_vars

\* A lead was accepted with HUBSPOT_API_KEY set to the empty string and
\* nothing was sent.
C5_Witness ==
    /\ last.op = "create_lead"
    /\ last.status = 200
    /\ env["HUBSPOT_API_KEY"] = Some("")
    /\ outbox = <<>>

\* C10: when the insert at position failAt of the seed fails, the call
\* answers 500 and what it added is exactly the first failAt - 1 documents of
\* the insertion sequence, which stay in the store; nothing that was there is
\* removed and no further insert is made.
C10_SeedFailureLeavesPrefix ==
    [][(SeedStep /\ last'.token = Some(SeedSecret) /\ last'.failAt <= 7)
        => /\ last'.status = 500
           /\ nextId' = nextId + (last'.failAt - 1)
           /\ \A c \in Collections :
                /\ Kept(c)
                /\ AddedData(c) = SeedPrefixData(c, last'.failAt - 1)]_vars

\* The seed failed at its 4th insert: 2 products and 1 testimonial stay.
C10_Witness ==
    /\ last.op = "seed_demo"
    /\ last.status = 500
    /\ last.failAt = 4
    /\ Len(store["product"]) = 2
    /\ Len(store["testimonial"]) = 1
    /\ Len(store["project"]) = 0

---------------------------------------------------------------------------
(* Properties of the read handlers (specification ReadSpec) *)

ProductParams == {"category", "room_type", "in_stock"}

\* The parameters of the last list_products request that were supplied.
SuppliedProductParams == {k \in ProductParams : last[k] # None}

\* Those that the handler turns into a condition: a supplied in_stock, and a
\* supplied category or room_type that is not the empty string.
EffectiveProductParams ==
    {k \in {"category", "room_type"} : last[k] # None /\ last[k] # Some("")}
    \cup {k \in {"in_stock"} : last[k] # None}

\* Product doc satisfies an exact-match condition on each parameter of K.
ProductWanted(doc, K) ==
    /\ "category" \in K => doc["category"] = last["category"][1]
    /\ "room_type" \in K => doc["room_type"] = last["room_type"]
    /\ "in_stock" \in K => doc["in_stock"] = last["in_stock"][1]

ProductsWanted(K) ==
    LET keep(doc) == ProductWanted(doc, K) IN SelectSeq(store["product"], keep)

\* C6 as stated: the filter of list_products holds exactly the supplied
\* parameters, each with its value, the empty string included.
C6_FilterOfSuppliedParams ==
    last.op = "list_products"
        => /\ DOMAIN last.filt = SuppliedProductParams
           /\ \A k \in DOMAIN last.filt : last.filt[k] = last[k][1]

\* C6 amended: the filter of list_products holds exactly category and
\* room_type where supplied and not empty and in_stock where supplied (false
\* included), each with its value; an absent parameter and an empty-string
\* category or room_type put nothing in it; a successful call returns, in
\* storage order, exactly the products that meet every condition, hence all
\* products when there is none.
C6_FilterOfNonEmptyParams ==
    last.op = "list_products"
        => /\ DOMAIN last.filt = EffectiveProductParams
           /\ \A k \in DOMAIN last.filt : last.filt[k] = last[k][1]
           /\ last.status = 200 => last.docs = ProductsWanted(EffectiveProductParams)
           /\ (last.status = 200 /\ EffectiveProductParams = {})
                => last.docs = store["product"]

\* in_stock=false with an empty-string category selects the one product out
\* of stock among two.
C6_Witness ==
    /\ last.op = "list_products"
    /\ last.category = Some("")
    /\ last.room_type = None
    /\ last.in_stock = Some(FALSE)
    /\ last.status = 200
    /\ Len(store["product"]) = 2
    /\ Len(last.docs) = 1

\* The published value a list_blogposts request asks for.
RequestedPublished == IF last.published = None THEN TRUE ELSE last.published[1]

Contains(list, v) == \E i \in DOMAIN list : list[i] = v

\* The blog posts with the requested published value that, when withKeyword,
\* hold the keyword in their keywords list.
PostsWanted(withKeyword) ==
    LET keep(doc) == /\ doc["published"] = RequestedPublished
                     /\ withKeyword => Contains(doc["keywords"], last.keyword[1])
    IN  SelectSeq(store["blogpost"], keep)

\* C7 as stated: the filter of list_blogposts always has the published
\* condition, and whenever a keyword is supplied every returned post has the
\* keyword among its keywords.
C7_KeywordWheneverSupplied ==
    last.op = "list_blogposts"
        => /\ last.filt # EmptyDict
           /\ "published" \in DOMAIN last.filt
           /\ last.filt["published"] = RequestedPublished
           /\ last.keyword # None
                => /\ "keywords" \in DOMAIN last.filt
                   /\ \A i \in DOMAIN last.docs :
                        Contains(last.docs[i]["keywords"], last.keyword[1])
           /\ \A i \in DOMAIN last.docs : last.docs[i]["published"] = RequestedPublished

\* C7 amended: the filter of list_blogposts always has the published
\* condition (the supplied value, true when absent) and is never empty; a
\* supplied keyword that is not the empty string adds the condition that it is
\* an element of keywords, an empty-string keyword adds nothing, like an absent
\* one; a successful call returns, in storage order, exactly the posts with the
\* requested published value that (for a non-empty keyword) hold the keyword.
C7_KeywordWhenNonEmpty ==
    last.op = "list_blogposts"
        => /\ last.filt # EmptyDict
           /\ last.filt["published"] = RequestedPublished
           /\ DOMAIN last.filt =
                IF last.keyword # None /\ last.keyword # Some("")
                THEN {"published", "keywords"} ELSE {"published"}
           /\ "keywords" \in DOMAIN last.filt
                => last.filt["keywords"] = ("$in" :> <<last.keyword[1]>>)
           /\ last.status = 200
                => last.docs = PostsWanted(last.keyword # None /\ last.keyword # Some(""))

\* keyword "interior design" without a published override returns the one
\* published post that holds it, not the draft that holds it too.
C7_Witness ==
    /\ last.op = "list_blogposts"
    /\ last.published = None
    /\ last.keyword = Some("interior design")
    /\ last.status = 200
    /\ Len(store["blogpost"]) = 2
    /\ \E i \in 1..2 : /\ ~store["blogpost"][i]["published"]
                       /\ Contains(store["blogpost"][i]["keywords"], "interior design")
    /\ Len(last.docs) = 1

---------------------------------------------------------------------------
(* Properties of _serialize_docs (specification SerSpec) *)

SerCall == last.op = "_serialize_docs"

\* Same length, same order, a 24-character id that renders the storage
\* identifier, no "_id" key, and distinct identifiers rendered differently.
SerIdentifiers ==
    /\ Len(last.body) = Len(last.docs)
    /\ \A i \in 1..Len(last.docs) :
         /\ "id" \in DOMAIN last.body[i]
         /\ last.body[i]["id"] = str(last.docs[i]["_id"])
         /\ Len(last.body[i]["id"]) = OidHexLen
         /\ "_id" \notin DOMAIN last.body[i]
    /\ \A i, j \in 1..Len(last.docs) :
         last.docs[i]["_id"] # last.docs[j]["_id"]
            => last.body[i]["id"] # last.body[j]["id"]

\* The fields of K pass from each input document to its output unchanged,
\* and the output has no fields beyond those and id.
SerKeeps(i, K) ==
    /\ DOMAIN last.body[i] = K \cup {"id"}
    /\ \A k \in K : k \in DOMAIN last.body[i] /\ last.body[i][k] = last.docs[i][k]

\* C8 as stated: every field of the input other than "_id", a stored field
\* named "id" included, is unchanged in the output.
C8_EveryOtherFieldUnchanged ==
    SerCall => /\ SerIdentifiers
               /\ \A i \in 1..Len(last.docs) :
                    SerKeeps(i, DOMAIN last.docs[i] \ {"_id"})

\* C8 amended: the output list has the input's length and order; each output
\* document has a string id that renders the input's storage identifier, no
\* "_id" key, and every field of the input other than "_id" and "id"
\* unchanged; a stored field named "id" is replaced by the rendered
\* identifier; distinct storage identifiers give distinct id values.
C8_OtherFieldsExceptIdUnchanged ==
    SerCall => /\ SerIdentifiers
               /\ \A i \in 1..Len(last.docs) :
                    SerKeeps(i, DOMAIN last.docs[i] \ {"_id", "id"})

\* Two documents, one with a stored field named "id", were serialized.
C8_Witness ==
    /\ SerCall
    /\ Len(last.docs) = 2
    /\ "id" \in DOMAIN last.docs[1]
    /\ "id" \notin DOMAIN last.docs[2]
    /\ last.docs[1]["_id"] # last.docs[2]["_id"]
    /\ last.body[1]["id"] # last.docs[1]["id"]

---------------------------------------------------------------------------
(* Properties of test_database (specification DiagSpec) *)

DiagCall == last.op = "test_database"

\* The listing was reached and succeeded.
Listed == db # "None" /\ last.nameOutcome # "raises" /\ last.listOutcome = "ok"

\* C9: test_database answers with a success response in every storage state;
\* a failure shows only as the text of the 'database' field (with at most 50
\* characters of the error), the other fields keeping their fixed texts; and
\* 'collections' holds the first 10 names storage lists, never more.
C9_DiagnosticsNeverFails ==
    DiagCall
        => /\ last.status = 200
           /\ Len(last.body.collections) <= 10
           /\ last.body.collections =
                IF Listed THEN SubSeq(last.names, 1, Min(10, Len(last.names)))
                ELSE <<>>
           /\ last.body.backend = "Running"
           /\ last.body.database_url \in {"Set", "Not Set"}
           /\ last.body.database_name \in {"Set", "Not Set"}
           /\ last.body.connection_status \in {"Connected", "Not Connected"}
           /\ Len(last.body.database.detail) <= 50
           /\ last.body.database.text =
                IF db = "None" THEN "Available but not initialized"
                ELSE IF last.nameOutcome = "raises" THEN "Error: "
                ELSE IF last.listOutcome = "raises" THEN "Connected but Error: "
                ELSE "Connected & Working"
           /\ last.body.database.detail # <<>>
                => /\ db # "None"
                   /\ last.nameOutcome = "raises" \/ last.listOutcome = "raises"
                   /\ last.body.database.detail =
                        SubSeq(last.msg, 1, Min(50, Len(last.msg)))

\* Storage listed 12 collections and 10 were reported.
C9_WitnessTruncated ==
    /\ DiagCall
    /\ Listed
    /\ Len(last.names) = 12
    /\ Len(last.body.collections) = 10
    /\ last.status = 200

\* Reading the handle's name raised and the response was still a success.
C9_WitnessNameLookupFails ==
    /\ DiagCall
    /\ db = "handle"
    /\ last.nameOutcome = "raises"
    /\ Len(last.msg) > 50
    /\ last.status = 200
    /\ Len(last.body.database.detail) = 50

=============================================================================
